---------------------------- MODULE Spec2Model ----------------------------
(***************************************************************************)
(* A model of NebulousLabs/fastrand: a CSPRNG seeded once from the OS and  *)
(* expanded by hashing (seed || counter).  The default reader is the       *)
(* lock-free one (atomic 128-bit counter in two 64-bit words); the         *)
(* mutex-guarded reader is modelled beside it where a property covers      *)
(* both.  Derived primitives: Intn (rejection sampling), BigIntn           *)
(* (crypto/rand.Int over the Reader) and Perm (inside-out Fisher-Yates).   *)
(*                                                                         *)
(* Machine words are scaled: a byte has ByteBase values and a uint64 has   *)
(* WordBytes bytes, so MaxUint64 = ByteBase^WordBytes - 1 and the reset    *)
(* threshold 1<<63 is half of the word range.                              *)
(***************************************************************************)
EXTENDS Integers, Sequences, FiniteSets, TLC

\* ------------------------------------------------------------- bounds
\* Number of values of one byte (256 in the program).
ByteBase == 4
\* Number of bytes of a uint64 (8 in the program).
WordBytes == 2
\* Goroutines calling Reader.Read concurrently.
NumGoroutines == 2
\* fillEntropy goroutines (runtime.NumCPU()).
NumWorkers == 2
\* Capacity of the entropy channel.
QueueCap == 2
\* Read calls on the worker-pool reader that are followed.
PoolCalls == 2
\* Draws one Intn call may make before the model stops following it.
MaxDraws == 2
\* Largest argument of the BigIntn calls followed.
MaxBig == 17
\* Largest argument of the Perm calls followed.
MaxPerm == 5
\* Longest buffer handed to the Read call that is followed byte by byte.
MaxLen == 130
\* Read calls the goroutines start (beyond the sequential warm-up).
MaxCalls == 4
\* Length of the hash loop that is followed for its inner counter, in
\* multiples of the word range.
ChunkRounds == 8
\* Non-overlapping Read calls that are followed, in threshold crossings.
SeqRounds == 6

\* ---------------------------------------------------- program constants
\* len(r.entropy): the seed is 32 bytes.
EntropyLen == 32
\* blake2b.Sum512 returns 64 bytes.
HashSize == 64
\* The mutex-guarded reader's hashSize: len(blake2b.Sum256(base)).
MutexHashSize == 32
MutexBaseLen == 64
\* The worker-pool reader's chunk: blake2b.New256 sums to 32 bytes.
ChunkSize == 32

\* ------------------------------------------------------ word arithmetic
RECURSIVE Pow(_, _)
Pow(b, e) == IF e = 0 THEN 1 ELSE b * Pow(b, e - 1)

\* math.MaxUint64
MaxUint64 == Pow(ByteBase, WordBytes) - 1
\* Number of uint64 values; unsigned arithmetic is modulo this.
WordMod == MaxUint64 + 1
\* The constant 1<<63 of Read: half of the word range.
Threshold == WordMod \div 2
\* The largest int (math.MaxInt64).
MaxInt == Threshold - 1

Min(a, b) == IF a < b THEN a ELSE b

\* atomic.AddUint64(&x, 1), x++ on a uint64: wraps around.
AddUint64(x, d) == (x + d) % WordMod

\* binary.LittleEndian.PutUint64: byte i (1-based) is digit i-1 of v.
PutUint64(v) == [i \in 1..WordBytes |-> (v \div Pow(ByteBase, i - 1)) % ByteBase]

RECURSIVE LEValue(_, _)
LEValue(bs, k) ==
    IF k = 0 THEN 0 ELSE LEValue(bs, k - 1) + bs[k] * Pow(ByteBase, k - 1)
\* binary.LittleEndian.Uint64, and *(*uint64)(unsafe.Pointer(&b[0])) on a
\* little-endian machine.
Uint64LE(bs) == LEValue(bs, WordBytes)

\* A copy that always moves the whole source.
CopyLenFull(dstLen, srcLen) == srcLen

\* copy(dst, src) copies min(len(dst), len(src)) elements and returns that.
CopyLen(dstLen, srcLen) == Min(dstLen, srcLen)

\* A *big.Int: the nil pointer, or a value.
BigNil == [isNil |-> TRUE, v |-> 0]
BigVal(v) == [isNil |-> FALSE, v |-> v]

\* ------------------------------------------------------------ variables
VARIABLES
    \* --- the process and its lock-free Reader (randReader)
    initState,      \* "start" | "done" | "panicked": where func init() is
    entropyFilled,  \* bytes of r.entropy written by rand.Read
    initErr,        \* err of rand.Read in init: "none" (not called) | "nil" | "err"
    reader,         \* the global Reader: "nil" or "r"
    counter,        \* r.counter
    counterExtra,   \* r.counterExtra
    pc,             \* per goroutine: position inside Read
    lenb,           \* per goroutine: len(b) of the call in progress
    myCounter,      \* per goroutine: local counter
    myExtra,        \* per goroutine: local counterExtra
    ret,            \* per goroutine: what the last Read returned
    seeds,          \* bag of the outer tokens written into seed[0:16]
    hashed,         \* bag of the SeedBlocks handed to the hash so far
    calls,          \* Read calls started
    ops,            \* per goroutine: the steps its current (or last) call made
    \* --- one Read call seen byte by byte (either reader)
    rdImpl,         \* "atomic" (lock-free reader) | "mutex" (mutex-guarded reader)
    rdPc,           \* "call" | "loop" | "done"
    rdLen,          \* len(b)
    rdMem,          \* the memory b points into: b is rdMem[1..rdLen]
    rdN,            \* n (lock-free) or i (mutex): the loop variable
    rdCounter,      \* r.counter, or the low counter word in entropy[0:8]
    rdCounterExtra, \* r.counterExtra, or the high word in entropy[8:16]
    rdToken,        \* lock-free: the local (counter, counterExtra)
    rdInner,        \* lock-free: (innerCounter, innerCounterExtra)
    rdLocked,       \* mutex: r.mu is held
    rdHashes,       \* hash invocations of the call so far
    rdRet,          \* what Read returned
    rdAdds,         \* lock-free: fetch-and-increments of r.counter by the call
    \* --- one Intn call
    inN,            \* the argument n
    inPc,           \* "call" | "draw" | "test" | "done" | "panicked"
    inMax,          \* max
    inB,            \* b, the 8 bytes last read
    inR,            \* r
    inDraws,        \* the draws made so far
    inRejected,     \* the values of the draws the loop has discarded
    inRes,          \* the value returned
    inCounter,      \* r.counter of the Reader behind Bytes and Read
    \* --- one BigIntn call
    bgN,            \* the argument n
    bgPc,           \* "call" | "draw" | "done" | "panicked"
    bgTries,        \* candidates drawn so far
    bgRes,          \* the *big.Int returned: BigNil or BigVal(v)
    bgErr,          \* the error rand.Int returned, which BigIntn discards
    bgCounter,      \* r.counter of the Reader handed to rand.Int
    \* --- one Perm call
    pmN,            \* the argument n
    pmPc,           \* "call" | "loop" | "done" | "panicked"
    pmM,            \* m: a sequence, m[k + 1] is Go's m[k]
    pmI,            \* i
    pmJs,           \* the values Intn has returned to this call, in order
    pmBounds,       \* the arguments of this call's Intn calls, in order
    \* --- the mutex-guarded Reader shared by goroutines
    mu,             \* r.mu: 0 when unlocked, else the goroutine holding it
    mxPc,           \* per goroutine: "idle" | "lock" | "loop" | "copy"
    mxLen,          \* per goroutine: len(b)
    mxI,            \* per goroutine: the loop variable i
    mxLow,          \* the low counter word, entropy[0:8]
    mxHigh,         \* the high counter word, entropy[8:16]
    mxStart,        \* per goroutine: the 128-bit counter when it took r.mu
    mxHashed,       \* bag of the counter values hashed so far
    mxCalls,        \* Read calls started
    mxBuf,          \* r.buf: the counter value whose digest it holds
    mxMade,         \* per goroutine: the counter values its call hashed
    mxGot,          \* per goroutine: the digests copied into its b
    \* --- the inner counter of one lock-free Read call, chunk after chunk
    icK,            \* hash invocations made so far
    icInner,        \* (innerCounter, innerCounterExtra) of the next invocation
    icPrev,         \* the pair the previous invocation hashed
    icSeen,         \* the pairs hashed so far
    \* --- the acceptance bound of Intn on words of several widths
    wdBits,         \* bits of the unsigned word
    wdPc,           \* "idle" | "max" | "panicked"
    wdN,            \* the argument n
    wdMax,          \* the local max
    \* --- the worker-pool reader: fillEntropy workers and Read calls
    plDead,         \* TRUE once a worker's panic has ended the process
    plQueue,        \* r.entropy: the chunks sent and not yet received
    plWkPc,         \* per worker: "start" | "send"
    plWkI,          \* per worker: the loop variable i
    plWkEpoch,      \* per worker: re-seedings made so far
    plPc,           \* per goroutine: "idle" | "loop"
    plLen,          \* per goroutine: len(b)
    plN,            \* per goroutine: the local n
    plCall,         \* per goroutine: the number of its Read call
    plCalls,        \* Read calls started
    plEvents,       \* the receives made: which chunk, by which call, where
    \* --- the lock-free reader under Read calls that do not overlap
    sqCounter,      \* r.counter
    sqExtra,        \* r.counterExtra
    sqLen,          \* len(b) of the last call
    sqTokens,       \* the tokens of the calls so far, in order
    \* --- one seed as Read builds it
    sdPc,           \* "idle" | "built"
    sdWords,        \* counter, counterExtra, innerCounter, innerCounterExtra
    sdSeed          \* the seed built from them

readerVars == <<initState, entropyFilled, initErr, reader, counter, counterExtra, pc,
                lenb, myCounter, myExtra, ret, seeds, hashed, calls, ops>>

rdVars == <<rdImpl, rdPc, rdLen, rdMem, rdN, rdCounter, rdCounterExtra,
            rdToken, rdInner, rdLocked, rdHashes, rdRet, rdAdds>>

inVars == <<inN, inPc, inMax, inB, inR, inDraws, inRejected, inRes,
            inCounter>>

bgVars == <<bgN, bgPc, bgTries, bgRes, bgErr, bgCounter>>

pmVars == <<pmN, pmPc, pmM, pmI, pmJs, pmBounds>>

mxVars == <<mu, mxPc, mxLen, mxI, mxLow, mxHigh, mxStart, mxHashed, mxCalls,
            mxBuf, mxMade, mxGot>>

icVars == <<icK, icInner, icPrev, icSeen>>

wdVars == <<wdBits, wdPc, wdN, wdMax>>

plVars == <<plDead, plQueue, plWkPc, plWkI, plWkEpoch, plPc, plLen, plN, plCall,
            plCalls, plEvents>>

sqVars == <<sqCounter, sqExtra, sqLen, sqTokens>>

sdVars == <<sdPc, sdWords, sdSeed>>

vars == <<readerVars, rdVars, inVars, bgVars, pmVars, mxVars, icVars, wdVars, plVars, sqVars, sdVars>>

\* What the concurrent reader's actions leave alone.
notReaderVars == <<rdVars, inVars, bgVars, pmVars, mxVars, icVars, wdVars, plVars, sqVars, sdVars>>

Goroutines == 1..NumGoroutines
\* The fillEntropy goroutines started by init.
Workers == 1..NumWorkers
\* Buffer lengths of the concurrent calls: no chunk, and two chunks.
ConcLens == {0, HashSize + 1}

\* ----------------------------------------------------- func init()
\* crypto/rand.Read is io.ReadFull: n = len(b) exactly when err = nil.
RandReadOutcomes(len) ==
    {<<len, "nil">>} \cup {<<k, "err">> : k \in 0..(len - 1)}

\* A check that only refuses an empty read.
InitFailsOnlyEmpty(n, err) == n = 0

\* if err != nil || n != len(r.entropy) { panic(...) }
InitFails(n, err) == err # "nil" \/ n # EntropyLen

\* func init(): r := &randReader{}; rand.Read(r.entropy[:]); check; Reader = r
GoInit ==
    /\ initState = "start"
    /\ \E o \in RandReadOutcomes(EntropyLen) :
         /\ entropyFilled' = o[1]
         /\ initErr' = o[2]
         /\ IF InitFails(o[1], o[2])
               THEN /\ initState' = "panicked"
                    /\ reader' = reader
               ELSE /\ initState' = "done"
                    /\ reader' = "r"
    /\ UNCHANGED <<counter, counterExtra, pc, lenb, myCounter, myExtra, ret,
                   seeds, hashed, calls, ops>>
    /\ UNCHANGED notReaderVars

\* ----------------------------------------- randReader.Read, lock-free
\* Number of bytes written by the loop `for n < len(b)`, from n.
RECURSIVE ReadLoopN(_, _)
ReadLoopN(n, len) ==
    IF n < len THEN ReadLoopN(n + CopyLen(len - n, HashSize), len) ELSE n

\* A loop that tests after its body: a hash invocation even when no byte
\* is left to write.
ReadLoopHashesDoWhile(n, len) == (len - n + HashSize) \div HashSize

\* Number of hash invocations of the loop, from n.
RECURSIVE ReadLoopHashes(_, _)
ReadLoopHashes(n, len) ==
    IF n < len THEN 1 + ReadLoopHashes(n + CopyLen(len - n, HashSize), len)
    ELSE 0

\* Stops one byte short of a non-empty buffer and reports an error.
ReadReturnShort(len) ==
    IF len = 0 THEN <<0, "nil">> ELSE <<ReadLoopN(0, len) - 1, "err">>

\* return n, nil: what Read returns for a buffer of length len.
ReadReturn(len) == <<ReadLoopN(0, len), "nil">>

\* A goroutine calls Reader.Read(b); a nil Reader cannot be called.
Call(g) ==
    /\ initState = "done"
    /\ reader = "r"
    /\ pc[g] = "idle"
    /\ calls < MaxCalls
    /\ \E l \in ConcLens : lenb' = [lenb EXCEPT ![g] = l]
    /\ pc' = [pc EXCEPT ![g] = "add"]
    /\ calls' = calls + 1
    /\ ops' = [ops EXCEPT ![g] = <<>>]
    /\ UNCHANGED <<initState, entropyFilled, initErr, reader, counter, counterExtra,
                   myCounter, myExtra, ret, seeds, hashed>>
    /\ UNCHANGED notReaderVars

\* counter := atomic.AddUint64(&r.counter, 1)
AtomicAdd(g) ==
    /\ pc[g] = "add"
    /\ counter' = AddUint64(counter, 1)
    /\ myCounter' = [myCounter EXCEPT ![g] = counter']
    /\ pc' = [pc EXCEPT ![g] = "load"]
    /\ ops' = [ops EXCEPT ![g] = Append(@, "add")]
    /\ UNCHANGED <<initState, entropyFilled, initErr, reader, counterExtra, lenb,
                   myExtra, ret, seeds, hashed, calls>>
    /\ UNCHANGED notReaderVars

\* A test that never takes the reset branch.
OverThresholdNever(c) == FALSE

\* A test that also takes the threshold itself.
OverThresholdIncl(c) == c >= Threshold

\* if counter > 1<<63
OverThreshold(c) == c > Threshold

\* counterExtra := atomic.LoadUint64(&r.counterExtra); if counter > 1<<63
AtomicLoad(g) ==
    /\ pc[g] = "load"
    /\ myExtra' = [myExtra EXCEPT ![g] = counterExtra]
    /\ pc' = [pc EXCEPT ![g] =
                IF OverThreshold(myCounter[g]) THEN "addExtra" ELSE "seed"]
    /\ ops' = [ops EXCEPT ![g] = Append(@, "load")]
    /\ UNCHANGED <<initState, entropyFilled, initErr, reader, counter, counterExtra,
                   lenb, myCounter, ret, seeds, hashed, calls>>
    /\ UNCHANGED notReaderVars

\* atomic.AddUint64(&r.counterExtra, 1)
AtomicAddExtra(g) ==
    /\ pc[g] = "addExtra"
    /\ counterExtra' = AddUint64(counterExtra, 1)
    /\ pc' = [pc EXCEPT ![g] = "store"]
    /\ ops' = [ops EXCEPT ![g] = Append(@, "addExtra")]
    /\ UNCHANGED <<initState, entropyFilled, initErr, reader, counter, lenb,
                   myCounter, myExtra, ret, seeds, hashed, calls>>
    /\ UNCHANGED notReaderVars

\* atomic.StoreUint64(&r.counter, 0)
AtomicStore(g) ==
    /\ pc[g] = "store"
    /\ counter' = 0
    /\ pc' = [pc EXCEPT ![g] = "seed"]
    /\ ops' = [ops EXCEPT ![g] = Append(@, "store")]
    /\ UNCHANGED <<initState, entropyFilled, initErr, reader, counterExtra, lenb,
                   myCounter, myExtra, ret, seeds, hashed, calls>>
    /\ UNCHANGED notReaderVars

\* seed[0:8], seed[8:16]: the outer token of this call's SeedBlocks.
SeedToken(c, ce) == PutUint64(c) \o PutUint64(ce)

\* An inner counter that is never incremented.
InnerStepStuck(in) == in

\* An inner counter whose high word is never incremented.
InnerStepNoCarry(in) == <<AddUint64(in[1], 1), in[2]>>

\* An inner counter that carries when the low word wraps to 0.
InnerStepCarryOnWrap(in) ==
    LET ic == AddUint64(in[1], 1)
    IN  <<ic, IF ic = 0 THEN AddUint64(in[2], 1) ELSE in[2]>>

\* innerCounter++; if innerCounter == math.MaxUint64 { innerCounterExtra++ }
InnerStep(in) ==
    LET ic == AddUint64(in[1], 1)
    IN  <<ic, IF ic = MaxUint64 THEN AddUint64(in[2], 1) ELSE in[2]>>

\* (innerCounter, innerCounterExtra) at the k-th hash invocation of a call.
RECURSIVE InnerAt(_)
InnerAt(k) == IF k = 0 THEN <<0, 0>> ELSE InnerStep(InnerAt(k - 1))

\* A seed whose outer token changes with every chunk.
SeedBlockTokenPerChunk(c, ce, in, filled) ==
    [ctr |-> SeedToken(AddUint64(c, in[1]), ce) \o PutUint64(in[1])
               \o PutUint64(in[2]),
     entropy |-> filled]

\* A seed whose inner low word is written over the outer high word.
SeedBlockOverlap(c, ce, in, filled) ==
    [ctr |-> PutUint64(c) \o PutUint64(in[1]) \o PutUint64(in[1])
               \o PutUint64(in[2]),
     entropy |-> filled]

\* The 64-byte seed handed to blake2b.Sum512: seed[0:16] the outer token,
\* seed[16:24] and seed[24:32] the inner counter, seed[32:] the entropy (its
\* bytes are opaque: only how many of them rand.Read filled is kept).
SeedBlock(c, ce, in, filled) ==
    [ctr |-> SeedToken(c, ce) \o PutUint64(in[1]) \o PutUint64(in[2]),
     entropy |-> filled]

\* One more element in a bag.
AddToBag(bag, x) ==
    IF x \in DOMAIN bag THEN [bag EXCEPT ![x] = @ + 1]
    ELSE [t \in DOMAIN bag \cup {x} |-> IF t = x THEN 1 ELSE bag[t]]

\* The bag of hashed SeedBlocks after the first k hash invocations of a call.
RECURSIVE HashBlocks(_, _, _, _, _)
HashBlocks(bag, c, ce, filled, k) ==
    IF k = 0 THEN bag
    ELSE AddToBag(HashBlocks(bag, c, ce, filled, k - 1),
                  SeedBlock(c, ce, InnerAt(k - 1), filled))

\* A copy that clears its source.
EntropyClearedByCopy(filled) == 0

\* copy(seed[32:], r.entropy[:]): r.entropy is the source of the copy; the
\* call writes only its own seed slice.
EntropyAfterCopy(filled) == filled

\* The steps of a call's hash loop: one per hash invocation.
HashOps(k) == [i \in 1..k |-> "hash"]

\* The rest of Read, local to the goroutine: build the seed, run the hash
\* loop over b, return n, nil.
Fill(g) ==
    /\ pc[g] = "seed"
    /\ seeds' = AddToBag(seeds, SeedToken(myCounter[g], myExtra[g]))
    /\ hashed' = HashBlocks(hashed, myCounter[g], myExtra[g], entropyFilled,
                            ReadLoopHashes(0, lenb[g]))
    /\ ret' = [ret EXCEPT ![g] = ReadReturn(lenb[g])]
    /\ pc' = [pc EXCEPT ![g] = "idle"]
    /\ ops' = [ops EXCEPT ![g] = @ \o HashOps(ReadLoopHashes(0, lenb[g]))]
    /\ entropyFilled' = EntropyAfterCopy(entropyFilled)
    /\ UNCHANGED <<initState, initErr, reader, counter, counterExtra,
                   lenb, myCounter, myExtra, calls>>
    /\ UNCHANGED notReaderVars

\* The bag of the tokens of k non-overlapping calls that start at
\* r.counter = 0 and stay at or below the threshold: call c takes token
\* (c, counterExtra).
SeqTokens(ce, k) ==
    [t \in {SeedToken(c, ce) : c \in 1..k} |->
        Cardinality({c \in 1..k : SeedToken(c, ce) = t})]

\* The bag of the SeedBlocks these calls hash, `hashes` blocks each.
SeqBlocks(ce, filled, hashes, k) ==
    LET idx == (1..k) \X (0..(hashes - 1))
        blkOf(x) == SeedBlock(x[1], ce, InnerAt(x[2]), filled)
    IN  [blk \in {blkOf(x) : x \in idx} |->
            Cardinality({x \in idx : blkOf(x) = blk})]

\* Non-overlapping Read calls by one goroutine, each returning before the
\* next starts, until r.counter is at the threshold or one below it: every
\* such call adds one to r.counter, reads r.counterExtra and takes no reset
\* branch.
WarmCounters == {Threshold - 1, Threshold}

SequentialReads ==
    /\ initState = "done"
    /\ reader = "r"
    /\ calls = 0
    /\ counter = 0
    /\ \A g \in Goroutines : pc[g] = "idle"
    /\ \E w \in WarmCounters, l \in ConcLens :
         /\ counter' = w
         /\ lenb' = [lenb EXCEPT ![1] = l]
         /\ ret' = [ret EXCEPT ![1] = ReadReturn(l)]
         /\ hashed' = SeqBlocks(counterExtra, entropyFilled,
                                ReadLoopHashes(0, l), w)
         /\ myCounter' = [myCounter EXCEPT ![1] = w]
         /\ seeds' = SeqTokens(counterExtra, w)
         /\ ops' = [ops EXCEPT ![1] =
                       <<"add", "load">> \o HashOps(ReadLoopHashes(0, l))]
    /\ myExtra' = [myExtra EXCEPT ![1] = counterExtra]
    /\ UNCHANGED <<initState, entropyFilled, initErr, reader, counterExtra, pc,
                   calls>>
    /\ UNCHANGED notReaderVars

ReaderInit ==
    /\ initState = "start"
    /\ entropyFilled = 0
    /\ initErr = "none"
    /\ reader = "nil"
    /\ counter = 0
    /\ counterExtra = 0
    /\ pc = [g \in Goroutines |-> "idle"]
    /\ lenb = [g \in Goroutines |-> 0]
    /\ myCounter = [g \in Goroutines |-> 0]
    /\ myExtra = [g \in Goroutines |-> 0]
    /\ ret = [g \in Goroutines |-> <<0, "none">>]
    /\ seeds = [t \in {} |-> 0]
    /\ hashed = [t \in {} |-> 0]
    /\ calls = 0
    /\ ops = [g \in Goroutines |-> <<>>]

\* The one-call variables while the concurrent reader runs.
RdIdle ==
    /\ rdImpl = "atomic"
    /\ rdPc = "done"
    /\ rdLen = 0
    /\ rdMem = <<>>
    /\ rdN = 0
    /\ rdCounter = 0
    /\ rdCounterExtra = 0
    /\ rdToken = <<0, 0>>
    /\ rdInner = <<0, 0>>
    /\ rdLocked = FALSE
    /\ rdHashes = 0
    /\ rdRet = <<0, "none">>
    /\ rdAdds = 0

\* The Intn variables while no Intn call is followed.
InIdle ==
    /\ inN = 1
    /\ inPc = "done"
    /\ inMax = 0
    /\ inB = <<>>
    /\ inR = 0
    /\ inDraws = 0
    /\ inRejected = {}
    /\ inRes = 0
    /\ inCounter = 0

\* The BigIntn variables while no BigIntn call is followed.
BgIdle ==
    /\ bgN = 1
    /\ bgPc = "done"
    /\ bgTries = 0
    /\ bgRes = BigNil
    /\ bgErr = "nil"
    /\ bgCounter = 0

\* The Perm variables while no Perm call is followed.
PmIdle ==
    /\ pmN = 0
    /\ pmPc = "done"
    /\ pmM = <<>>
    /\ pmI = 0
    /\ pmJs = <<>>
    /\ pmBounds = <<>>

\* The mutex-guarded reader's variables while it is not followed.
MxIdle ==
    /\ mu = 0
    /\ mxPc = [g \in Goroutines |-> "idle"]
    /\ mxLen = [g \in Goroutines |-> 0]
    /\ mxI = [g \in Goroutines |-> 0]
    /\ mxLow = 0
    /\ mxHigh = 0
    /\ mxStart = [g \in Goroutines |-> 0]
    /\ mxHashed = [t \in {} |-> 0]
    /\ mxCalls = 0
    /\ mxBuf = <<>>
    /\ mxMade = [g \in Goroutines |-> <<>>]
    /\ mxGot = [g \in Goroutines |-> <<>>]

\* The inner-counter variables while no hash loop is followed.
IcIdle ==
    /\ icK = 0
    /\ icInner = <<0, 0>>
    /\ icPrev = <<0, 0>>
    /\ icSeen = {}

\* The word-width variables while no acceptance bound is computed.
WdIdle ==
    /\ wdBits = 0
    /\ wdPc = "idle"
    /\ wdN = 0
    /\ wdMax = 0

\* The worker-pool variables: init has made the channel and started the
\* workers, no Read was called.
PlIdle ==
    /\ plDead = FALSE
    /\ plQueue = <<>>
    /\ plWkPc = [w \in Workers |-> "start"]
    /\ plWkI = [w \in Workers |-> 0]
    /\ plWkEpoch = [w \in Workers |-> 0]
    /\ plPc = [g \in Goroutines |-> "idle"]
    /\ plLen = [g \in Goroutines |-> 0]
    /\ plN = [g \in Goroutines |-> 0]
    /\ plCall = [g \in Goroutines |-> 0]
    /\ plCalls = 0
    /\ plEvents = {}

\* The counters of the lock-free reader before its first Read.
SqIdle ==
    /\ sqCounter = 0
    /\ sqExtra = 0
    /\ sqLen = 0
    /\ sqTokens = <<>>

\* No seed is built.
SdIdle ==
    /\ sdPc = "idle"
    /\ sdWords = <<0, 0, 0, 0>>
    /\ sdSeed = [ctr |-> <<>>, entropy |-> 0]

Init == ReaderInit /\ RdIdle /\ InIdle /\ BgIdle /\ PmIdle /\ MxIdle /\ IcIdle /\ WdIdle /\ PlIdle /\ SqIdle /\ SdIdle

Next ==
    \/ GoInit
    \/ SequentialReads
    \/ \E g \in Goroutines :
         \/ Call(g)
         \/ AtomicAdd(g)
         \/ AtomicLoad(g)
         \/ AtomicAddExtra(g)
         \/ AtomicStore(g)
         \/ Fill(g)

Spec == Init /\ [][Next]_vars

\* ------------------------------------------ one Read call, byte by byte
\* The memory behind b: len(b) bytes and, after them, bytes b does not cover.
MemLen == MaxLen + HashSize

\* A byte Read has not written.
OldByte == [blk |-> [ctr |-> <<>>, entropy |-> 0], off |-> 0 - 1]

\* Byte `off` (0-based) of the digest of SeedBlock `blk`: the hash is an
\* opaque function of its input.
DigestByte(blk, off) == [blk |-> blk, off |-> off]

\* copy(b[n:], digest[:]): the memory after the copy.
CopyInto(mem, n, len, blk, size) ==
    [p \in 1..MemLen |->
        IF p > n /\ p <= n + CopyLen(len - n, size)
           THEN DigestByte(blk, p - n - 1) ELSE mem[p]]

\* Bytes requested from the OS at start-up: r.entropy (lock-free reader),
\* base (mutex-guarded reader).
InitReadLen(impl) == IF impl = "atomic" THEN EntropyLen ELSE MutexBaseLen

\* Mutex-guarded reader: _, err := rand.Read(base); if err != nil { panic }
MutexInitFails(n, err) == err # "nil"

\* Start-up of the reader that the followed call uses: func init() of the
\* lock-free reader, the initializer of var Reader of the mutex-guarded one.
RdGoInit ==
    /\ initState = "start"
    /\ \E o \in RandReadOutcomes(InitReadLen(rdImpl)) :
         /\ entropyFilled' = o[1]
         /\ initErr' = o[2]
         /\ IF (IF rdImpl = "atomic" THEN InitFails(o[1], o[2])
                                     ELSE MutexInitFails(o[1], o[2]))
               THEN /\ initState' = "panicked"
                    /\ reader' = reader
               ELSE /\ initState' = "done"
                    /\ reader' = "r"
    /\ UNCHANGED <<counter, counterExtra, pc, lenb, myCounter, myExtra, ret,
                   seeds, hashed, calls, ops>>
    /\ UNCHANGED notReaderVars

\* Lock-free Read, lines 54-75: take the token, reset the low word when
\* it is above the threshold, build the seed.
RdTakeToken ==
    /\ initState = "done"
    /\ reader = "r"
    /\ rdImpl = "atomic"
    /\ rdPc = "call"
    /\ LET c == AddUint64(rdCounter, 1)
       IN  /\ rdToken' = <<c, rdCounterExtra>>
           /\ IF OverThreshold(c)
                 THEN /\ rdCounterExtra' = AddUint64(rdCounterExtra, 1)
                      /\ rdCounter' = 0
                 ELSE /\ rdCounterExtra' = rdCounterExtra
                      /\ rdCounter' = c
    /\ rdN' = 0
    /\ rdInner' = <<0, 0>>
    /\ rdAdds' = rdAdds + 1
    /\ rdPc' = "loop"
    /\ UNCHANGED <<rdImpl, rdLen, rdMem, rdLocked, rdHashes, rdRet>>
    /\ UNCHANGED <<readerVars, inVars, bgVars, pmVars, mxVars, icVars, wdVars, plVars, sqVars, sdVars>>

\* Lock-free Read, lines 82-98: one iteration of `for n < len(b)`.
RdIter ==
    /\ rdImpl = "atomic"
    /\ rdPc = "loop"
    /\ rdN < rdLen
    /\ LET blk == SeedBlock(rdToken[1], rdToken[2], rdInner, entropyFilled)
       IN  rdMem' = CopyInto(rdMem, rdN, rdLen, blk, HashSize)
    /\ rdN' = rdN + CopyLen(rdLen - rdN, HashSize)
    /\ rdInner' = InnerStep(rdInner)
    /\ rdHashes' = rdHashes + 1
    /\ UNCHANGED <<rdImpl, rdPc, rdLen, rdCounter, rdCounterExtra, rdToken,
                   rdLocked, rdRet, rdAdds>>
    /\ UNCHANGED <<readerVars, inVars, bgVars, pmVars, mxVars, icVars, wdVars, plVars, sqVars, sdVars>>

\* Lock-free Read, line 99: return n, nil.
RdReturn ==
    /\ rdImpl = "atomic"
    /\ rdPc = "loop"
    /\ ~(rdN < rdLen)
    /\ rdRet' = <<rdN, "nil">>
    /\ rdPc' = "done"
    /\ UNCHANGED <<rdImpl, rdLen, rdMem, rdN, rdCounter, rdCounterExtra,
                   rdToken, rdInner, rdLocked, rdHashes, rdAdds>>
    /\ UNCHANGED <<readerVars, inVars, bgVars, pmVars, mxVars, icVars, wdVars, plVars, sqVars, sdVars>>

\* Mutex-guarded Read, lines 31-32: r.mu.Lock(); i := 0.
RdLock ==
    /\ initState = "done"
    /\ reader = "r"
    /\ rdImpl = "mutex"
    /\ rdPc = "call"
    /\ ~rdLocked
    /\ rdLocked' = TRUE
    /\ rdN' = 0
    /\ rdPc' = "loop"
    /\ UNCHANGED <<rdImpl, rdLen, rdMem, rdCounter, rdCounterExtra, rdToken,
                   rdInner, rdHashes, rdRet, rdAdds>>
    /\ UNCHANGED <<readerVars, inVars, bgVars, pmVars, mxVars, icVars, wdVars, plVars, sqVars, sdVars>>

\* Mutex-guarded Read, lines 32-45: increment the 128-bit counter in
\* entropy[0:16], hash the entropy, copy(b[i:], r.buf[:]), i += r.hashSize.
RdMutexIter ==
    /\ rdImpl = "mutex"
    /\ rdPc = "loop"
    /\ rdN < rdLen
    /\ LET c == AddUint64(rdCounter, 1)
           ce == IF c = 0 THEN AddUint64(rdCounterExtra, 1) ELSE rdCounterExtra
           blk == [ctr |-> SeedToken(c, ce), entropy |-> MutexHashSize]
       IN  /\ rdCounter' = c
           /\ rdCounterExtra' = ce
           /\ rdMem' = CopyInto(rdMem, rdN, rdLen, blk, MutexHashSize)
    /\ rdN' = rdN + MutexHashSize
    /\ rdHashes' = rdHashes + 1
    /\ UNCHANGED <<rdImpl, rdPc, rdLen, rdToken, rdInner, rdLocked, rdRet, rdAdds>>
    /\ UNCHANGED <<readerVars, inVars, bgVars, pmVars, mxVars, icVars, wdVars, plVars, sqVars, sdVars>>

\* Mutex-guarded Read, lines 46-47: r.mu.Unlock(); return len(b), nil.
RdUnlock ==
    /\ rdImpl = "mutex"
    /\ rdPc = "loop"
    /\ ~(rdN < rdLen)
    /\ rdLocked' = FALSE
    /\ rdRet' = <<rdLen, "nil">>
    /\ rdPc' = "done"
    /\ UNCHANGED <<rdImpl, rdLen, rdMem, rdN, rdCounter, rdCounterExtra,
                   rdToken, rdInner, rdHashes, rdAdds>>
    /\ UNCHANGED <<readerVars, inVars, bgVars, pmVars, mxVars, icVars, wdVars, plVars, sqVars, sdVars>>

\* The reader after init and any number of earlier calls: the lock-free
\* reader fresh or with its low word at the threshold, the mutex-guarded
\* one fresh or one step before its low word wraps.
RdCounters(impl) ==
    IF impl = "atomic" THEN {0, Threshold} ELSE {0, MaxUint64 - 1}

RdInit ==
    /\ rdImpl \in {"atomic", "mutex"}
    /\ rdPc = "call"
    /\ rdLen \in 0..MaxLen
    /\ rdMem = [p \in 1..MemLen |-> OldByte]
    /\ rdN = 0
    /\ rdCounter \in RdCounters(rdImpl)
    /\ rdCounterExtra = 0
    /\ rdToken = <<0, 0>>
    /\ rdInner = <<0, 0>>
    /\ rdLocked = FALSE
    /\ rdHashes = 0
    /\ rdRet = <<0, "none">>
    /\ rdAdds = 0

\* The concurrent reader's variables while Intn, BigIntn or Perm is followed.
ReaderIdle ==
    /\ initState = "done"
    /\ entropyFilled = EntropyLen
    /\ initErr = "nil"
    /\ reader = "r"
    /\ counter = 0
    /\ counterExtra = 0
    /\ pc = [g \in Goroutines |-> "idle"]
    /\ lenb = [g \in Goroutines |-> 0]
    /\ myCounter = [g \in Goroutines |-> 0]
    /\ myExtra = [g \in Goroutines |-> 0]
    /\ ret = [g \in Goroutines |-> <<0, "none">>]
    /\ seeds = [t \in {} |-> 0]
    /\ hashed = [t \in {} |-> 0]
    /\ calls = 0
    /\ ops = [g \in Goroutines |-> <<>>]

InitRead ==
    RdInit /\ ReaderInit /\ InIdle /\ BgIdle /\ PmIdle /\ MxIdle /\ IcIdle /\ WdIdle /\ PlIdle /\ SqIdle /\ SdIdle

NextRead ==
    \/ RdGoInit
    \/ RdTakeToken
    \/ RdIter
    \/ RdReturn
    \/ RdLock
    \/ RdMutexIter
    \/ RdUnlock

SpecRead == InitRead /\ [][NextRead]_vars

\* ------------------------------------------------------------- Intn
\* uint64(n) for an int n: negative values wrap around.
ToUint64(n) == n % WordMod

\* Refuses only n = 0.
IntnInvalidOnlyZero(n) == n = 0

\* if n <= 0 { panic("fastrand: argument to Intn is <= 0") }
IntnInvalid(n) == n <= 0

\* The remainder instead of the largest multiple.
IntnMaxRemainder(n) == MaxUint64 % ToUint64(n)

\* No rejection at all.
IntnMaxNoReject(n) == MaxUint64

\* The largest multiple of n in the lower half of the word range.
IntnMaxLowerHalf(n) == ((MaxUint64 \div 2) \div ToUint64(n)) * ToUint64(n)

\* max := math.MaxUint64 - math.MaxUint64%uint64(n)
IntnMax(n) == MaxUint64 - (MaxUint64 % ToUint64(n))

\* Accepts r = max as well.
IntnRejectsAbove(r, max) == r > max

\* for r >= max
IntnRejects(r, max) == r >= max

\* int(r % uint64(n))
IntnResult(r, n) == r % ToUint64(n)

\* The contents 8 bytes can have.
ByteSeqs == [1..WordBytes -> 0..(ByteBase - 1)]

\* r.counter after a Read that overlaps no other call.
SeqCounter(c) ==
    LET c1 == AddUint64(c, 1) IN IF OverThreshold(c1) THEN 0 ELSE c1

\* The arguments Intn is called with.
IntnArgs == (0 - 2)..MaxInt

\* Intn, lines 115-123: the argument check and max.  A zero divisor in
\* MaxUint64 % uint64(n) is a run-time panic.
IntnEnter ==
    /\ inPc = "call"
    /\ IF IntnInvalid(inN) \/ ToUint64(inN) = 0
          THEN /\ inPc' = "panicked"
               /\ inMax' = inMax
          ELSE /\ inPc' = "draw"
               /\ inMax' = IntnMax(inN)
    /\ UNCHANGED <<inN, inB, inR, inDraws, inRejected, inRes, inCounter>>
    /\ UNCHANGED <<readerVars, rdVars, bgVars, pmVars, mxVars, icVars, wdVars, plVars, sqVars, sdVars>>

\* b := Bytes(8), or Read(b) in the loop: one Reader.Read of 8 bytes, which
\* takes one counter value and fills b from one digest; then
\* r = *(*uint64)(unsafe.Pointer(&b[0])).
IntnDraw ==
    /\ inPc = "draw"
    /\ inCounter' = SeqCounter(inCounter)
    /\ \E bs \in ByteSeqs :
         /\ inB' = bs
         /\ inR' = Uint64LE(bs)
    /\ inDraws' = inDraws + 1
    /\ inPc' = "test"
    /\ UNCHANGED <<inN, inMax, inRejected, inRes>>
    /\ UNCHANGED <<readerVars, rdVars, bgVars, pmVars, mxVars, icVars, wdVars, plVars, sqVars, sdVars>>

\* for r >= max: the draw is discarded and another one made.
IntnRetry ==
    /\ inPc = "test"
    /\ IntnRejects(inR, inMax)
    /\ inDraws < MaxDraws
    /\ inRejected' = inRejected \cup {inR}
    /\ inPc' = "draw"
    /\ UNCHANGED <<inN, inMax, inB, inR, inDraws, inRes, inCounter>>
    /\ UNCHANGED <<readerVars, rdVars, bgVars, pmVars, mxVars, icVars, wdVars, plVars, sqVars, sdVars>>

\* return int(r % uint64(n))
IntnReturn ==
    /\ inPc = "test"
    /\ ~IntnRejects(inR, inMax)
    /\ inRes' = IntnResult(inR, inN)
    /\ inPc' = "done"
    /\ UNCHANGED <<inN, inMax, inB, inR, inDraws, inRejected, inCounter>>
    /\ UNCHANGED <<readerVars, rdVars, bgVars, pmVars, mxVars, icVars, wdVars, plVars, sqVars, sdVars>>

InInit ==
    /\ inN \in IntnArgs
    /\ inPc = "call"
    /\ inMax = 0
    /\ inB = <<>>
    /\ inR = 0
    /\ inDraws = 0
    /\ inRejected = {}
    /\ inRes = 0
    /\ inCounter = 0

InitIntn ==
    InInit /\ ReaderIdle /\ RdIdle /\ BgIdle /\ PmIdle /\ MxIdle /\ IcIdle /\ WdIdle /\ PlIdle /\ SqIdle /\ SdIdle

NextIntn ==
    \/ IntnEnter
    \/ IntnDraw
    \/ IntnRetry
    \/ IntnReturn

SpecIntn == InitIntn /\ [][NextIntn]_vars

\* Intn runs on a goroutine the scheduler keeps running: a step that is
\* possible is eventually taken.
SpecIntnLive == SpecIntn /\ WF_vars(NextIntn)

\* ---------------------------------------------------------- BigIntn
\* crypto/rand.Int(rand, max), which BigIntn calls with the Reader:
\*   if max.Sign() <= 0 { panic }
\*   n = max - 1; bitLen := n.BitLen(); if bitLen == 0 { return 0, nil }
\*   k := (bitLen + 7) / 8; bytes := make([]byte, k)
\*   for { _, err = io.ReadFull(rand, bytes); if err != nil { return nil, err }
\*         clear the bits of bytes[0] above bitLen; n.SetBytes(bytes)
\*         if n.Cmp(max) < 0 { return n, nil } }
\* big.Int.BitLen: the length in bits of the absolute value.
RECURSIVE BitLen(_)
BitLen(x) ==
    IF x = 0 THEN 0
    ELSE 1 + BitLen((IF x < 0 THEN 0 - x ELSE x) \div 2)

\* if max.Sign() <= 0 { panic("crypto/rand: argument to Int is <= 0") }
RandIntPanics(max) == max <= 0

\* k, the bytes rand.Int reads for one candidate.
RandIntBytes(max) == (BitLen(max - 1) + 7) \div 8

\* The candidates k random bytes give once the excess bits are cleared.
RandIntCandidates(max) == 0..(Pow(2, BitLen(max - 1)) - 1)

\* io.ReadFull(rand, bytes) over Reader.Read: no error when Read filled the
\* buffer, Read's error otherwise.
ReadFullErr(k) ==
    LET r == ReadReturn(k)
    IN  IF r[1] >= k THEN "nil"
        ELSE IF r[2] # "nil" THEN r[2] ELSE "ErrNoProgress"

\* Answers the arguments up to 1 itself, without calling rand.Int.
BigIntnPanicsTrivialFirst(n) == IF n <= 1 THEN FALSE ELSE RandIntPanics(n)

\* BigIntn makes no check of its own: it panics when rand.Int(Reader, n) does.
BigIntnPanics(n) == RandIntPanics(n)

\* The arguments BigIntn is called with.
BigArgs == (0 - 2)..MaxBig

\* BigIntn, line 135, up to the first read of rand.Int.
BigEnter ==
    /\ bgPc = "call"
    /\ IF BigIntnPanics(bgN)
          THEN /\ bgPc' = "panicked"
               /\ UNCHANGED <<bgRes, bgErr>>
          ELSE IF BitLen(bgN - 1) = 0
          THEN /\ bgPc' = "done"
               /\ bgRes' = BigVal(0)
               /\ bgErr' = "nil"
          ELSE /\ bgPc' = "draw"
               /\ UNCHANGED <<bgRes, bgErr>>
    /\ UNCHANGED <<bgN, bgTries, bgCounter>>
    /\ UNCHANGED <<readerVars, rdVars, inVars, pmVars, mxVars, icVars, wdVars, plVars, sqVars, sdVars>>

\* One round of rand.Int's loop: a Reader.Read of k bytes, then either the
\* error return, the return of a candidate below n (lines 135-136:
\* i, _ := rand.Int(Reader, n); return i), or another round.
BigDraw ==
    /\ bgPc = "draw"
    /\ bgCounter' = SeqCounter(bgCounter)
    /\ bgTries' = bgTries + 1
    /\ IF ReadFullErr(RandIntBytes(bgN)) # "nil"
          THEN /\ bgRes' = BigNil
               /\ bgErr' = ReadFullErr(RandIntBytes(bgN))
               /\ bgPc' = "done"
          ELSE \E c \in RandIntCandidates(bgN) :
                 IF c < bgN
                    THEN /\ bgRes' = BigVal(c)
                         /\ bgErr' = "nil"
                         /\ bgPc' = "done"
                    ELSE /\ bgTries' < MaxDraws
                         /\ UNCHANGED <<bgRes, bgErr, bgPc>>
    /\ UNCHANGED bgN
    /\ UNCHANGED <<readerVars, rdVars, inVars, pmVars, mxVars, icVars, wdVars, plVars, sqVars, sdVars>>

BgInit ==
    /\ bgN \in BigArgs
    /\ bgPc = "call"
    /\ bgTries = 0
    /\ bgRes = BigNil
    /\ bgErr = "nil"
    /\ bgCounter = 0

InitBig ==
    BgInit /\ ReaderIdle /\ RdIdle /\ InIdle /\ PmIdle /\ MxIdle /\ IcIdle /\ WdIdle /\ PlIdle /\ SqIdle /\ SdIdle

NextBig ==
    \/ BigEnter
    \/ BigDraw

SpecBig == InitBig /\ [][NextBig]_vars

\* ------------------------------------------------------------- Perm
\* The values Intn(n) can return: the results of the draws it accepts.
IntnValues(n) ==
    {IntnResult(Uint64LE(bs), n) :
        bs \in {x \in ByteSeqs : ~IntnRejects(Uint64LE(x), IntnMax(n))}}

\* The bound of a loop that counts positions from 1: Intn(i - 1).
PermBoundBelow(i) == i - 1

\* Draws below i, never i itself.
PermBoundShort(i) == i

\* j := Intn(i + 1): the bound of the draw at position i.
PermBound(i) == i + 1

\* Stores i at j without first moving m[j] to m[i].
PermStepNoMove(m, i, j) == [m EXCEPT ![j + 1] = i]

\* m[i] = m[j]; m[j] = i
PermStep(m, i, j) == [[m EXCEPT ![i + 1] = m[j + 1]] EXCEPT ![j + 1] = i]

\* The arguments Perm is called with.
PermArgs == (0 - 1)..MaxPerm

\* m := make([]int, n); i := 1.  A negative length is a run-time panic.
PermEnter ==
    /\ pmPc = "call"
    /\ IF pmN < 0
          THEN /\ pmPc' = "panicked"
               /\ UNCHANGED <<pmM, pmI>>
          ELSE /\ pmPc' = "loop"
               /\ pmM' = [k \in 1..pmN |-> 0]
               /\ pmI' = 1
    /\ UNCHANGED <<pmN, pmJs, pmBounds>>
    /\ UNCHANGED <<readerVars, rdVars, inVars, bgVars, mxVars, icVars, wdVars, plVars, sqVars, sdVars>>

\* m[k] is an access inside the slice.
InRange(m, k) == k >= 0 /\ k < Len(m)

\* One iteration of `for i := 1; i < n; i++`.  Intn panics on an invalid
\* bound, and an index outside m is a run-time panic.
PermIter ==
    /\ pmPc = "loop"
    /\ pmI < pmN
    /\ pmBounds' = Append(pmBounds, PermBound(pmI))
    /\ IF IntnInvalid(PermBound(pmI))
          THEN /\ pmPc' = "panicked"
               /\ UNCHANGED <<pmM, pmJs, pmI>>
          ELSE \E j \in IntnValues(PermBound(pmI)) :
                  /\ pmJs' = Append(pmJs, j)
                  /\ IF InRange(pmM, pmI) /\ InRange(pmM, j)
                        THEN /\ pmM' = PermStep(pmM, pmI, j)
                             /\ pmI' = pmI + 1
                             /\ UNCHANGED pmPc
                        ELSE /\ pmPc' = "panicked"
                             /\ UNCHANGED <<pmM, pmI>>
    /\ UNCHANGED <<pmN>>
    /\ UNCHANGED <<readerVars, rdVars, inVars, bgVars, mxVars, icVars, wdVars, plVars, sqVars, sdVars>>

\* return m
PermReturn ==
    /\ pmPc = "loop"
    /\ ~(pmI < pmN)
    /\ pmPc' = "done"
    /\ UNCHANGED <<pmN, pmM, pmI, pmJs, pmBounds>>
    /\ UNCHANGED <<readerVars, rdVars, inVars, bgVars, mxVars, icVars, wdVars, plVars, sqVars, sdVars>>

\* The sequences of values Intn can return to Perm(n) up to position i - 1.
RECURSIVE DrawSeqs(_)
DrawSeqs(i) ==
    IF i <= 1 THEN {<<>>}
    ELSE {Append(js, j) : js \in DrawSeqs(i - 1),
                          j \in IntnValues(PermBound(i - 1))}

\* m after the iterations 1..i-1 of Perm(n) with the draws js.
RECURSIVE PermOf(_, _, _)
PermOf(n, js, i) ==
    IF i <= 1 THEN [k \in 1..n |-> 0]
    ELSE PermStep(PermOf(n, js, i - 1), i - 1, js[i - 1])

PmInit ==
    /\ pmN \in PermArgs
    /\ pmPc = "call"
    /\ pmM = <<>>
    /\ pmI = 0
    /\ pmJs = <<>>
    /\ pmBounds = <<>>

InitPerm ==
    PmInit /\ ReaderIdle /\ RdIdle /\ InIdle /\ BgIdle /\ MxIdle /\ IcIdle /\ WdIdle /\ PlIdle /\ SqIdle /\ SdIdle

NextPerm ==
    \/ PermEnter
    \/ PermIter
    \/ PermReturn

SpecPerm == InitPerm /\ [][NextPerm]_vars

\* ------------------------- the mutex-guarded reader, concurrent calls
\* Buffer lengths of the calls: no chunk, one partial chunk, two chunks.
MutexLens == {0, 1, MutexHashSize + 1}

\* The 128-bit counter as one number.
Value128(low, high) == high * WordMod + low

\* An increment that never carries into the high word.
MutexCounterStepNoCarry(low, high) == <<AddUint64(low, 1), high>>

\* *(*uint64)(&r.entropy[0])++; if it is now 0 { *(*uint64)(&r.entropy[8])++ }
MutexCounterStep(low, high) ==
    LET c == AddUint64(low, 1)
    IN  <<c, IF c = 0 THEN AddUint64(high, 1) ELSE high>>

\* A mutex that never makes a caller wait.
MutexAlwaysFree(m) == TRUE

\* sync.Mutex: Lock returns only while no goroutine holds the mutex.
MutexFree(m) == m = 0

\* A goroutine calls Reader.Read(b).
MxCall(g) ==
    /\ mxPc[g] = "idle"
    /\ mxCalls < MaxCalls
    /\ \E l \in MutexLens : mxLen' = [mxLen EXCEPT ![g] = l]
    /\ mxPc' = [mxPc EXCEPT ![g] = "lock"]
    /\ mxCalls' = mxCalls + 1
    /\ mxMade' = [mxMade EXCEPT ![g] = <<>>]
    /\ mxGot' = [mxGot EXCEPT ![g] = <<>>]
    /\ UNCHANGED <<mu, mxI, mxLow, mxHigh, mxStart, mxHashed, mxBuf>>
    /\ UNCHANGED <<readerVars, rdVars, inVars, bgVars, pmVars, icVars, wdVars, plVars, sqVars, sdVars>>

\* r.mu.Lock(); i := 0.  Lock waits while another goroutine holds r.mu.
MxLock(g) ==
    /\ mxPc[g] = "lock"
    /\ MutexFree(mu)
    /\ mu' = g
    /\ mxI' = [mxI EXCEPT ![g] = 0]
    /\ mxStart' = [mxStart EXCEPT ![g] = Value128(mxLow, mxHigh)]
    /\ mxPc' = [mxPc EXCEPT ![g] = "loop"]
    /\ UNCHANGED <<mxLen, mxLow, mxHigh, mxHashed, mxCalls, mxBuf, mxMade, mxGot>>
    /\ UNCHANGED <<readerVars, rdVars, inVars, bgVars, pmVars, icVars, wdVars, plVars, sqVars, sdVars>>

\* One iteration of `for i := 0; i < len(b); i += r.hashSize`, up to the
\* copy: increment the counter, hash r.entropy into r.buf.
MxIter(g) ==
    /\ mxPc[g] = "loop"
    /\ mxI[g] < mxLen[g]
    /\ LET nx == MutexCounterStep(mxLow, mxHigh)
       IN  /\ mxLow' = nx[1]
           /\ mxHigh' = nx[2]
           /\ mxHashed' = AddToBag(mxHashed, SeedToken(nx[1], nx[2]))
           /\ mxBuf' = SeedToken(nx[1], nx[2])
           /\ mxMade' = [mxMade EXCEPT ![g] = Append(@, SeedToken(nx[1], nx[2]))]
    /\ mxPc' = [mxPc EXCEPT ![g] = "copy"]
    /\ UNCHANGED <<mu, mxLen, mxI, mxStart, mxCalls, mxGot>>
    /\ UNCHANGED <<readerVars, rdVars, inVars, bgVars, pmVars, icVars, wdVars, plVars, sqVars, sdVars>>

\* copy(b[i:], r.buf[:]); i += r.hashSize
MxCopy(g) ==
    /\ mxPc[g] = "copy"
    /\ mxGot' = [mxGot EXCEPT ![g] = Append(@, mxBuf)]
    /\ mxI' = [mxI EXCEPT ![g] = @ + MutexHashSize]
    /\ mxPc' = [mxPc EXCEPT ![g] = "loop"]
    /\ UNCHANGED <<mu, mxLen, mxLow, mxHigh, mxStart, mxHashed, mxCalls, mxBuf,
                   mxMade>>
    /\ UNCHANGED <<readerVars, rdVars, inVars, bgVars, pmVars, icVars, wdVars, plVars, sqVars, sdVars>>

\* r.mu.Unlock(); return len(b), nil
MxUnlock(g) ==
    /\ mxPc[g] = "loop"
    /\ ~(mxI[g] < mxLen[g])
    /\ mu' = 0
    /\ mxPc' = [mxPc EXCEPT ![g] = "idle"]
    /\ UNCHANGED <<mxLen, mxI, mxLow, mxHigh, mxStart, mxHashed, mxCalls, mxBuf,
                   mxMade, mxGot>>
    /\ UNCHANGED <<readerVars, rdVars, inVars, bgVars, pmVars, icVars, wdVars, plVars, sqVars, sdVars>>

\* Non-overlapping Read calls, each returning before the next starts, that
\* make MaxUint64 - 1 hash invocations in all: the low word ends one step
\* before its largest value and every counter value up to it was hashed once.
MxSequentialReads ==
    /\ mxCalls = 0
    /\ mxLow = 0
    /\ mxHigh = 0
    /\ \A g \in Goroutines : mxPc[g] = "idle"
    /\ mxLow' = MaxUint64 - 1
    /\ mxHashed' = [t \in {SeedToken(c, 0) : c \in 1..(MaxUint64 - 1)} |-> 1]
    /\ mxBuf' = SeedToken(MaxUint64 - 1, 0)
    /\ UNCHANGED <<mu, mxPc, mxLen, mxI, mxHigh, mxStart, mxCalls, mxMade, mxGot>>
    /\ UNCHANGED <<readerVars, rdVars, inVars, bgVars, pmVars, icVars, wdVars, plVars, sqVars, sdVars>>

InitMutex ==
    MxIdle /\ ReaderIdle /\ RdIdle /\ InIdle /\ BgIdle /\ PmIdle /\ IcIdle /\ WdIdle /\ PlIdle /\ SqIdle /\ SdIdle

NextMutex ==
    \/ MxSequentialReads
    \/ \E g \in Goroutines :
         \/ MxCall(g)
         \/ MxLock(g)
         \/ MxIter(g)
         \/ MxCopy(g)
         \/ MxUnlock(g)

SpecMutex == InitMutex /\ [][NextMutex]_vars

\* ------------------------------ the inner counter of one lock-free Read
\* Hash invocations of the loop that is followed.
MaxChunks == ChunkRounds * WordMod

\* One iteration of `for n < len(b)`, lines 84-97, seen from the inner
\* counter: the pair is written into seed[16:32] and hashed, then stepped.
IcIter ==
    /\ icK < MaxChunks
    /\ icK' = icK + 1
    /\ icSeen' = icSeen \cup {icInner}
    /\ icPrev' = icInner
    /\ icInner' = InnerStep(icInner)
    /\ UNCHANGED <<readerVars, rdVars, inVars, bgVars, pmVars, mxVars, wdVars, plVars, sqVars, sdVars>>

InitInner ==
    IcIdle /\ ReaderIdle /\ RdIdle /\ InIdle /\ BgIdle /\ PmIdle /\ MxIdle /\ WdIdle /\ PlIdle /\ SqIdle /\ SdIdle

NextInner == IcIter

SpecInner == InitInner /\ [][NextInner]_vars

\* --------------------------- the acceptance bound of Intn, by word width
\* The narrowest and the widest unsigned word followed. The bound's minimum
\* depends on the word's width, so it is computed on several widths; every
\* width is a scaled uint64.
MinBits == 4
MaxBits == 7

WordBits == MinBits..MaxBits

\* math.MaxUint64 of a word of the given width.
MaxUint64Of(bits) == Pow(2, bits) - 1

\* The largest int of that width: n is an int, so n <= math.MaxUint64/2.
MaxIntOf(bits) == Pow(2, bits - 1) - 1

\* The largest multiple of n in the lower half of the word range.
IntnMaxOfLowerHalf(m, n) == ((m \div 2) \div n) * n

\* max := math.MaxUint64 - math.MaxUint64%uint64(n), for the word maximum m.
IntnMaxOf(m, n) == m - (m % n)

\* Intn(n) up to the assignment of max, lines 115-123.
WdIntn ==
    /\ wdPc = "idle"
    /\ \E n \in (0 - 1)..MaxIntOf(wdBits) :
         /\ wdN' = n
         /\ IF IntnInvalid(n)
              THEN wdPc' = "panicked" /\ wdMax' = 0
              ELSE wdPc' = "max" /\ wdMax' = IntnMaxOf(MaxUint64Of(wdBits), n)
    /\ UNCHANGED <<wdBits>>
    /\ UNCHANGED <<readerVars, rdVars, inVars, bgVars, pmVars, mxVars, icVars, plVars, sqVars, sdVars>>

WdInit ==
    /\ wdBits \in WordBits
    /\ wdPc = "idle"
    /\ wdN = 0
    /\ wdMax = 0

InitWidth ==
    WdInit /\ ReaderIdle /\ RdIdle /\ InIdle /\ BgIdle /\ PmIdle /\ MxIdle /\ IcIdle /\ PlIdle /\ SqIdle /\ SdIdle

NextWidth == WdIntn

SpecWidth == InitWidth /\ [][NextWidth]_vars

\* ------------------------------------------------ the worker-pool reader
\* Buffer lengths of the calls: no chunk, one partial chunk, one chunk and
\* the first byte of a second.
PoolLens == {0, 1, ChunkSize + 1}

\* The chunk a worker sends: h.Sum(nil) of its seed with i in seed[0:8].
\* Every send makes a new slice; it is named by worker, re-seeding and i.
Chunk(w, epoch, i) == <<w, epoch, i>>

\* A receive that leaves the chunk in the channel.
ChanPeek(q) == q

\* <-r.entropy: the channel without its first element.
ChanRecv(q) == Tail(q)

\* io.CopyN(h, rand.Reader, 64); a failure panics and ends the process.
PlSeed(w) ==
    /\ ~plDead
    /\ plWkPc[w] = "start"
    /\ \E err \in {"nil", "err"} :
         IF err # "nil"
           THEN plDead' = TRUE /\ UNCHANGED plWkPc
           ELSE plWkPc' = [plWkPc EXCEPT ![w] = "send"] /\ UNCHANGED plDead
    /\ UNCHANGED <<plQueue, plWkI, plWkEpoch, plPc, plLen, plN, plCall, plCalls,
                   plEvents>>
    /\ UNCHANGED <<readerVars, rdVars, inVars, bgVars, pmVars, mxVars, icVars,
                   wdVars, sqVars, sdVars>>

\* One iteration of `for i := uint64(0); i < math.MaxUint64; i++`: the send
\* waits while the channel is full.
PlSend(w) ==
    /\ ~plDead
    /\ plWkPc[w] = "send"
    /\ plWkI[w] < MaxUint64
    /\ Len(plQueue) < QueueCap
    /\ plQueue' = Append(plQueue, Chunk(w, plWkEpoch[w], plWkI[w]))
    /\ plWkI' = [plWkI EXCEPT ![w] = AddUint64(@, 1)]
    /\ UNCHANGED <<plDead, plWkPc, plWkEpoch, plPc, plLen, plN, plCall, plCalls,
                   plEvents>>
    /\ UNCHANGED <<readerVars, rdVars, inVars, bgVars, pmVars, mxVars, icVars,
                   wdVars, sqVars, sdVars>>

\* The inner loop has ended: re-seed (the error of io.CopyN is dropped) and
\* start the inner loop again.
PlReseed(w) ==
    /\ ~plDead
    /\ plWkPc[w] = "send"
    /\ ~(plWkI[w] < MaxUint64)
    /\ plWkEpoch' = [plWkEpoch EXCEPT ![w] = @ + 1]
    /\ plWkI' = [plWkI EXCEPT ![w] = 0]
    /\ UNCHANGED <<plDead, plQueue, plWkPc, plPc, plLen, plN, plCall, plCalls,
                   plEvents>>
    /\ UNCHANGED <<readerVars, rdVars, inVars, bgVars, pmVars, mxVars, icVars,
                   wdVars, sqVars, sdVars>>

\* A goroutine calls Reader.Read(b): n := 0.
PlCall(g) ==
    /\ ~plDead
    /\ plPc[g] = "idle"
    /\ plCalls < PoolCalls
    /\ \E l \in PoolLens : plLen' = [plLen EXCEPT ![g] = l]
    /\ plN' = [plN EXCEPT ![g] = 0]
    /\ plCalls' = plCalls + 1
    /\ plCall' = [plCall EXCEPT ![g] = plCalls + 1]
    /\ plPc' = [plPc EXCEPT ![g] = "loop"]
    /\ UNCHANGED <<plDead, plQueue, plWkPc, plWkI, plWkEpoch, plEvents>>
    /\ UNCHANGED <<readerVars, rdVars, inVars, bgVars, pmVars, mxVars, icVars,
                   wdVars, sqVars, sdVars>>

\* n += copy(b[n:], <-r.entropy): the receive waits while the channel is
\* empty; the chunk is used for this copy only.
PlRecv(g) ==
    /\ ~plDead
    /\ plPc[g] = "loop"
    /\ plN[g] < plLen[g]
    /\ plQueue # <<>>
    /\ LET k == CopyLen(plLen[g] - plN[g], ChunkSize)
       IN  /\ plEvents' = plEvents \cup
                 {[chunk |-> Head(plQueue), call |-> plCall[g], at |-> plN[g],
                   len |-> k]}
           /\ plN' = [plN EXCEPT ![g] = @ + k]
    /\ plQueue' = ChanRecv(plQueue)
    /\ UNCHANGED <<plDead, plWkPc, plWkI, plWkEpoch, plPc, plLen, plCall, plCalls>>
    /\ UNCHANGED <<readerVars, rdVars, inVars, bgVars, pmVars, mxVars, icVars,
                   wdVars, sqVars, sdVars>>

\* return n, nil
PlReturn(g) ==
    /\ ~plDead
    /\ plPc[g] = "loop"
    /\ ~(plN[g] < plLen[g])
    /\ plPc' = [plPc EXCEPT ![g] = "idle"]
    /\ UNCHANGED <<plDead, plQueue, plWkPc, plWkI, plWkEpoch, plLen, plN, plCall,
                   plCalls, plEvents>>
    /\ UNCHANGED <<readerVars, rdVars, inVars, bgVars, pmVars, mxVars, icVars,
                   wdVars, sqVars, sdVars>>

\* Read calls that returned before the calls followed here have received
\* every chunk the workers sent so far: each worker is two sends before the
\* end of its inner loop and the channel is empty.
PlEarlierReads ==
    /\ ~plDead
    /\ plCalls = 0
    /\ plQueue = <<>>
    /\ \A w \in Workers : plWkPc[w] = "send" /\ plWkI[w] = 0 /\ plWkEpoch[w] = 0
    /\ plWkI' = [w \in Workers |-> MaxUint64 - 2]
    /\ UNCHANGED <<plDead, plQueue, plWkPc, plWkEpoch, plPc, plLen, plN, plCall,
                   plCalls, plEvents>>
    /\ UNCHANGED <<readerVars, rdVars, inVars, bgVars, pmVars, mxVars, icVars,
                   wdVars, sqVars, sdVars>>

InitPool ==
    PlIdle /\ ReaderIdle /\ RdIdle /\ InIdle /\ BgIdle /\ PmIdle /\ MxIdle /\ IcIdle /\ WdIdle /\ SqIdle /\ SdIdle

NextPool ==
    \/ PlEarlierReads
    \/ \E w \in Workers :
         \/ PlSeed(w)
         \/ PlSend(w)
         \/ PlReseed(w)
    \/ \E g \in Goroutines :
         \/ PlCall(g)
         \/ PlRecv(g)
         \/ PlReturn(g)

SpecPool == InitPool /\ [][NextPool]_vars

\* ------------------------- the lock-free reader, calls that do not overlap
\* Read calls followed: enough to cross the threshold SeqRounds times.
MaxSeqCalls == SeqRounds * (Threshold + 1)

\* A reset that stores 0 without incrementing the high word.
SeqReadNoCarry(c, ce) ==
    LET c1 == AddUint64(c, 1)
    IN  [token |-> <<c1, ce>>,
         counter |-> IF OverThreshold(c1) THEN 0 ELSE c1,
         counterExtra |-> ce]

\* Lines 54-66 of Read while no other call runs: the fetch-and-increment,
\* the load of the high word, and above the threshold the increment of the
\* high word and the reset of the low word.
SeqRead(c, ce) ==
    LET c1 == AddUint64(c, 1)
    IN  [token |-> <<c1, ce>>,
         counter |-> IF OverThreshold(c1) THEN 0 ELSE c1,
         counterExtra |-> IF OverThreshold(c1) THEN AddUint64(ce, 1) ELSE ce]

\* One whole Read call; it returns before the next one starts.
SqRead ==
    /\ Len(sqTokens) < MaxSeqCalls
    /\ \E l \in ConcLens : sqLen' = l
    /\ LET r == SeqRead(sqCounter, sqExtra)
       IN  /\ sqTokens' = Append(sqTokens, r.token)
           /\ sqCounter' = r.counter
           /\ sqExtra' = r.counterExtra
    /\ UNCHANGED <<readerVars, rdVars, inVars, bgVars, pmVars, mxVars, icVars,
                   wdVars, plVars, sdVars>>

InitSeq ==
    SqIdle /\ ReaderIdle /\ RdIdle /\ InIdle /\ BgIdle /\ PmIdle /\ MxIdle /\ IcIdle /\ WdIdle /\ PlIdle /\ SdIdle

NextSeq == SqRead

SpecSeq == InitSeq /\ [][NextSeq]_vars

\* ------------------------------------------------ the seed of one Read
\* Values of the four counter words a seed is built from: the ends of the
\* word range, the threshold, and the values around a byte boundary.
SeedWords == {0, 1, ByteBase - 1, ByteBase, Threshold, MaxUint64}

\* The four counter words of a seed.
SeedWordTuples == SeedWords \X SeedWords \X SeedWords \X SeedWords

\* The seed Read builds from four counter words and the filled entropy.
SeedOf(t) == SeedBlock(t[1], t[2], <<t[3], t[4]>>, EntropyLen)

\* Lines 71-75 and 84-85: the seed of a hash invocation.
SdBuild ==
    /\ sdPc = "idle"
    /\ \E t \in SeedWordTuples :
         /\ sdWords' = t
         /\ sdSeed' = SeedOf(t)
    /\ sdPc' = "built"
    /\ UNCHANGED <<readerVars, rdVars, inVars, bgVars, pmVars, mxVars, icVars,
                   wdVars, plVars, sqVars>>

InitSeed ==
    SdIdle /\ ReaderIdle /\ RdIdle /\ InIdle /\ BgIdle /\ PmIdle /\ MxIdle /\ IcIdle /\ WdIdle /\ PlIdle /\ SqIdle

NextSeed == SdBuild

SpecSeed == InitSeed /\ [][NextSeed]_vars

\* ------------------------------------------------------------- claims

\* C1: under any interleaving of concurrent Read calls on the lock-free
\* reader, no two calls write the same outer token (counter, counterExtra)
\* into a seed they hash: no SeedBlock (outer token, inner counter, seed) is
\* handed to the hash function twice.
C1_NoSeedBlockHashedTwice ==
    \A blk \in DOMAIN hashed : hashed[blk] = 1

\* C10: if the OS entropy read at start-up returns an error or fewer bytes
\* than requested, initialization panics and Reader is never assigned;
\* Reader is assigned only after the read filled all requested bytes, no
\* Read runs on an unassigned Reader and every hashed block holds the
\* completely filled seed.
C10_InitFatal ==
    /\ (initState # "start"
           /\ (initErr # "nil" \/ entropyFilled # InitReadLen(rdImpl)))
          => (initState = "panicked" /\ reader = "nil")
    /\ reader = "r" =>
          (initState = "done" /\ entropyFilled = InitReadLen(rdImpl))
    /\ rdPc # "call" => reader = "r"
    /\ \A p \in 1..MemLen :
          (rdMem[p] # OldByte /\ rdImpl = "atomic")
             => rdMem[p].blk.entropy = EntropyLen

\* A short, failed entropy read has happened and init has panicked.
C10_Witness ==
    /\ initState = "panicked"
    /\ initErr = "err"
    /\ entropyFilled > 0
    /\ entropyFilled < InitReadLen(rdImpl)
    /\ reader = "nil"
    /\ rdPc = "call"

\* C2: for every buffer b of length S >= 0, Read overwrites each of the S
\* positions of b with a digest byte, never writes beyond them, and returns
\* exactly (S, nil).
C2_ReadFillsExactly ==
    /\ \A p \in (rdLen + 1)..MemLen : rdMem[p] = OldByte
    /\ rdPc = "done" =>
          /\ \A p \in 1..rdLen :
                /\ rdMem[p] # OldByte
                /\ rdMem[p].off =
                      (p - 1) % (IF rdImpl = "atomic" THEN HashSize
                                                     ELSE MutexHashSize)
          /\ rdRet = <<rdLen, "nil">>

\* A Read of a buffer that is not a whole number of digests has returned.
C2_Witness ==
    /\ rdPc = "done"
    /\ rdLen > HashSize
    /\ rdLen % HashSize # 0
    /\ rdLen % MutexHashSize # 0
    /\ rdHashes > 1

\* C3: Intn(n) is unbiased: for the max the call computed, every value v in
\* [0, n) is the result of exactly max / n of the 8-byte draws the loop
\* accepts, the same number for every v.
C3_IntnUnbiased ==
    inPc = "draw" /\ inDraws = 0 =>
        \A v \in 0..(inN - 1) :
            Cardinality({bs \in ByteSeqs :
                            /\ ~IntnRejects(Uint64LE(bs), inMax)
                            /\ IntnResult(Uint64LE(bs), inN) = v})
              = inMax \div inN

\* Intn was called with an n that does not divide the word range and has
\* computed max.
C3_Witness ==
    /\ inPc = "draw"
    /\ inN > 2
    /\ inMax < MaxUint64
    /\ inMax \div inN > 1

\* C4: for n > 0 the value Intn returns is in [0, n) and is r mod n for the
\* first draw r below max: every earlier draw was >= max and was discarded.
C4_IntnFirstAccepted ==
    inPc = "done" =>
        /\ 0 <= inRes /\ inRes < inN
        /\ inR = Uint64LE(inB)
        /\ inR < inMax
        /\ inRes = inR % inN
        /\ \A x \in inRejected : x >= inMax
        /\ inMax = MaxUint64 - (MaxUint64 % inN)

\* Intn has returned after discarding a draw.
C4_Witness ==
    /\ inPc = "done"
    /\ inDraws > 1
    /\ inRejected # {}
    /\ inRes > 0

\* C5: Intn(n) panics for every n <= 0, before drawing any random byte or
\* taking any counter value, and for no n > 0.
C5_IntnPanics ==
    /\ inPc = "panicked" =>
          (inN <= 0 /\ inDraws = 0 /\ inB = <<>> /\ inCounter = 0)
    /\ (inN <= 0 /\ inPc # "call") => inPc = "panicked"

\* Intn(0) has panicked.
C5_Witness ==
    /\ inPc = "panicked"
    /\ inN = 0

\* C8: BigIntn(n) panics for every n <= 0 and for no n > 0, n = 1 included.
C8_BigIntnPanics ==
    /\ bgPc = "panicked" => bgN <= 0
    /\ (bgN <= 0 /\ bgPc # "call") => bgPc = "panicked"
    /\ (bgN <= 0) => bgCounter = 0

\* BigIntn(0) has panicked, or BigIntn(1) has returned.
C8_Witness ==
    \/ bgPc = "panicked" /\ bgN = 0
    \/ bgPc = "done" /\ bgN = 1

\* C9: for every n > 0 BigIntn(n) returns a non-nil v with 0 <= v < n, and
\* the error of rand.Int that it discards is nil, because Reader.Read
\* returns no error.
C9_BigIntnInRange ==
    (bgPc = "done" /\ bgN > 0) =>
        /\ ~bgRes.isNil
        /\ bgErr = "nil"
        /\ bgRes.v \in 0..(bgN - 1)

\* BigIntn has returned a value after a candidate was refused.
C9_Witness ==
    /\ bgPc = "done"
    /\ bgN > 1
    /\ bgTries > 1
    /\ bgRes = BigVal(bgN - 1)

\* C6: for every n >= 0 and every sequence of values Intn returns, Perm(n)
\* returns a sequence of length n in which each integer of [0, n) occurs
\* exactly once.
C6_PermIsPermutation ==
    (pmPc = "done" /\ pmN >= 0) =>
        /\ Len(pmM) = pmN
        /\ \A v \in 0..(pmN - 1) :
              Cardinality({k \in 1..pmN : pmM[k] = v}) = 1

\* Perm(n) has returned for the largest n, with the identity not chosen.
C6_Witness ==
    /\ pmPc = "done"
    /\ pmN = MaxPerm
    /\ pmM[1] # 0

\* The permutations of 0..n-1, as sequences of length n.
AllPerms(n) ==
    {f \in [1..n -> 0..(n - 1)] : \A a, b \in 1..n : a # b => f[a] # f[b]}

\* C7: the map from the draws (j_1, ..., j_{n-1}), 0 <= j_i <= i, to the
\* sequence Perm(n) returns is a bijection onto the permutations of [0, n):
\* the draws of a call are 0 <= j_i <= i, no other draw sequence gives the
\* sequence the call returned, and (stated once per n, when the call
\* starts) the draw sequences give all the permutations of [0, n).
C7_PermBijection ==
    /\ (pmPc = "done" /\ pmN >= 0) =>
          /\ \A i \in 1..Len(pmJs) : pmJs[i] \in 0..i
          /\ pmJs \in DrawSeqs(pmN)
          /\ pmM = PermOf(pmN, pmJs, pmN)
          /\ \A js \in DrawSeqs(pmN) :
                PermOf(pmN, js, pmN) = pmM => js = pmJs
    /\ (pmPc = "loop" /\ pmI = 1) =>
          {PermOf(pmN, js, pmN) : js \in DrawSeqs(pmN)} = AllPerms(pmN)

\* Perm(n) has returned for an n with more than one permutation, having
\* drawn the largest value at every position.
C7_Witness ==
    /\ pmPc = "done"
    /\ pmN > 2
    /\ \A i \in 1..Len(pmJs) : pmJs[i] = i

\* C11: the seed is written exactly once, by initialization: only the step
\* that takes the process out of its start state changes the seed, that
\* step happens once, and afterwards no step of any Read call (and so of
\* Bytes, Intn, BigIntn and Perm, which reach the seed only through Read),
\* under any interleaving, changes it.
C11_SeedWrittenOnce ==
    [][/\ entropyFilled' # entropyFilled =>
             (initState = "start" /\ initState' # "start")
       /\ initState # "start" =>
             (initState' = initState /\ entropyFilled' = entropyFilled)]_vars

\* Both goroutines have hashed the seed after a complete initialization.
C11_Witness ==
    /\ initState = "done"
    /\ entropyFilled = EntropyLen
    /\ \A g \in Goroutines :
          pc[g] = "idle" /\ Len(ops[g]) > 2 /\ ops[g][Len(ops[g])] = "hash"

\* C12: in the mutex-guarded reader the 128-bit counter is incremented by
\* exactly one before every hash invocation, the high word exactly when the
\* low word wraps to 0: under any interleaving the number of hashed counter
\* values equals the counter, no counter value is hashed twice, only the
\* holder of r.mu is inside the loop, and a Read of len(b) bytes has
\* advanced the counter by ceil(len(b)/32) when it leaves the loop.
C12_MutexCounterUnique ==
    /\ \A t \in DOMAIN mxHashed : mxHashed[t] = 1
    /\ Cardinality(DOMAIN mxHashed) = Value128(mxLow, mxHigh)
    /\ \A g \in Goroutines :
          mxPc[g] = "loop" =>
             /\ mu = g
             /\ Value128(mxLow, mxHigh)
                   = mxStart[g] + mxI[g] \div MutexHashSize
             /\ ~(mxI[g] < mxLen[g]) =>
                   mxI[g] \div MutexHashSize
                     = (mxLen[g] + MutexHashSize - 1) \div MutexHashSize

\* A call has hashed two counter values across the wrap of the low word
\* while another goroutine waits for r.mu.
C12_Witness ==
    /\ mxHigh = 1
    /\ \E g, h \in Goroutines :
          /\ mxPc[g] = "loop"
          /\ mxI[g] > MutexHashSize
          /\ mxStart[g] < WordMod
          /\ mxPc[h] = "lock"

\* C13: a Read call on the lock-free reader is never blocked by another
\* caller and never retries: whatever the other goroutines do, its next
\* step on the shared counter is enabled, and the steps it makes are one
\* fetch-and-increment, one load, at most one high-word increment followed
\* by one low-word reset, then ceil(len(b)/64) hash iterations on its own
\* seed, after which it has returned.
C13_ReadWaitFree ==
    \A g \in Goroutines :
       LET h == (lenb[g] + HashSize - 1) \div HashSize
           n == Len(ops[g])
           count(o) == Cardinality({i \in 1..n : ops[g][i] = o})
       IN  /\ pc[g] = "add" => ENABLED AtomicAdd(g)
           /\ pc[g] = "load" => ENABLED AtomicLoad(g)
           /\ pc[g] = "addExtra" => ENABLED AtomicAddExtra(g)
           /\ pc[g] = "store" => ENABLED AtomicStore(g)
           /\ count("add") <= 1 /\ count("load") <= 1
           /\ count("addExtra") <= 1 /\ count("store") <= 1
           /\ count("hash") <= h
           /\ (pc[g] = "idle" /\ n > 0) =>
                 /\ count("hash") = h
                 /\ n \in {2 + h, 4 + h}
                 /\ ret[g] = <<lenb[g], "nil">>

\* A call that took the reset branch has returned after its 4 + 2 steps
\* while another goroutine is still between its own increment and reset.
C13_Witness ==
    \E g, h \in Goroutines :
       /\ pc[g] = "idle"
       /\ Len(ops[g]) = 6
       /\ lenb[g] = HashSize + 1
       /\ pc[h] = "store"

\* C14: for every n <= 1, negative n included, Perm(n) does not fail, draws
\* no random value, and returns <<0>> for n = 1 and the empty sequence
\* otherwise.
C14_PermTrivial ==
    pmN <= 1 =>
       /\ pmPc # "panicked"
       /\ pmJs = <<>>
       /\ pmPc = "done" => pmM = (IF pmN = 1 THEN <<0>> ELSE <<>>)

\* C15: the shared 128-bit counter of the lock-free reader, read as
\* counterExtra * 2^64 + counter, never decreases from one state to the
\* next, under any interleaving of Read calls.
C15_CounterNeverDecreases ==
    [][Value128(counter', counterExtra') >= Value128(counter, counterExtra)]_vars

\* C16: a Read call on the lock-free reader makes exactly one
\* fetch-and-increment of r.counter, whatever len(b) is (none before it
\* starts, one from then on, len(b) = 0 included): its token's low word is
\* the counter it found plus one, and every chunk of the call is the
\* digest of a seed that carries that one token.
C16_OneTokenPerRead ==
    rdImpl = "atomic" =>
       /\ rdPc = "call" => rdAdds = 0
       /\ rdPc # "call" =>
             /\ rdAdds = 1
             /\ rdToken[1] \in {c + 1 : c \in RdCounters("atomic")}
             /\ rdCounter = (IF rdToken[1] > Threshold THEN 0 ELSE rdToken[1])
       /\ \A p \in 1..MemLen :
             rdMem[p] # OldByte =>
                SubSeq(rdMem[p].blk.ctr, 1, 2 * WordBytes)
                   = PutUint64(rdToken[1]) \o PutUint64(rdToken[2])

\* A Read of an empty buffer has returned: one token taken, nothing hashed.
C16_Witness ==
    /\ rdImpl = "atomic"
    /\ rdPc = "done"
    /\ rdLen = 0
    /\ rdAdds = 1
    /\ rdHashes = 0

\* C17: Read(b) with token t makes exactly ceil(len(b)/64) hash
\* invocations, and byte p of b (from 0) is byte p mod 64 of the digest of
\* the seed  t || inner counter floor(p/64) || entropy: b is the
\* concatenation of the digests for inner counters 0, 1, ... cut to len(b).
C17_ReadIsDigestConcat ==
    (rdImpl = "atomic" /\ rdPc = "done") =>
       /\ rdHashes = (rdLen + HashSize - 1) \div HashSize
       /\ \A p \in 0..(rdLen - 1) :
             rdMem[p + 1] =
                [blk |-> [ctr |-> PutUint64(rdToken[1]) \o PutUint64(rdToken[2])
                                    \o PutUint64(p \div HashSize)
                                    \o PutUint64(0),
                          entropy |-> EntropyLen],
                 off |-> p % HashSize]

\* A Read of three chunks, the last one cut short, has returned.
C17_Witness ==
    /\ rdImpl = "atomic"
    /\ rdPc = "done"
    /\ rdHashes = 3
    /\ rdLen % HashSize # 0

C19_ResetExactlyAboveThreshold ==
    /\ [](\A g \in Goroutines :
            LET branch == IF myCounter[g] > Threshold
                             THEN <<"add", "load", "addExtra", "store">>
                             ELSE <<"add", "load">>
            IN  /\ pc[g] \in {"addExtra", "store"} => myCounter[g] > Threshold
                /\ pc[g] = "store" => ops[g] = <<"add", "load", "addExtra">>
                /\ pc[g] = "seed" => ops[g] = branch
                /\ (pc[g] = "idle" /\ ops[g] # <<>>) =>
                      ops[g] = branch \o HashOps(Len(ops[g]) - Len(branch)))
    /\ [][(counterExtra' # counterExtra =>
              (/\ counterExtra' = (counterExtra + 1) % WordMod
               /\ \E g \in Goroutines :
                     /\ pc[g] = "addExtra" /\ pc'[g] = "store"
                     /\ myCounter[g] > Threshold))
           /\ (counter' < counter =>
              (/\ counter' = 0
               /\ \E g \in Goroutines :
                     /\ pc[g] = "store" /\ pc'[g] = "seed"
                     /\ myCounter[g] > Threshold))]_vars

\* One call got exactly 2^63 and returned without a reset; another got
\* 2^63 + 1 and has finished its increment and reset.
C19_Witness ==
    \E g, h \in Goroutines :
       /\ pc[g] = "seed"
       /\ myCounter[g] = Threshold + 1
       /\ ops[g] = <<"add", "load", "addExtra", "store">>
       /\ counter = 0
       /\ pc[h] = "idle"
       /\ myCounter[h] = Threshold
       /\ Len(ops[h]) >= 2
       /\ \A i \in 1..Len(ops[h]) : ops[h][i] \notin {"addExtra", "store"}

\* C20: for every valid bound n of Intn (0 < n <= the largest int) the
\* acceptance bound max is greater than half of the unsigned range: more
\* than half of all 8-byte draws are accepted, so the expected number of
\* draws is below 2.
C20_IntnAcceptsOverHalf ==
    /\ (inPc \in {"draw", "test", "done"} /\ inN > 0) => 2 * inMax > WordMod
    /\ (inPc = "draw" /\ inDraws = 0) =>
          2 * Cardinality({bs \in ByteSeqs :
                              ~IntnRejects(Uint64LE(bs), inMax)})
            > Cardinality(ByteSeqs)

\* Intn has computed max for n just above a quarter of the unsigned range,
\* where max is smallest.
C20_Witness ==
    /\ inPc = "draw"
    /\ inN = MaxUint64 \div 4 + 1
    /\ inMax < MaxUint64
    /\ \A n \in 1..MaxInt : IntnMax(n) >= inMax


C22_MutexExcludes ==
    /\ Cardinality({g \in Goroutines : mxPc[g] \in {"loop", "copy"}}) <= 1
    /\ \A g \in Goroutines :
          /\ mxPc[g] \in {"loop", "copy"} <=> mu = g
          /\ mxPc[g] = "copy" => mxBuf = mxMade[g][Len(mxMade[g])]
          /\ mxPc[g] = "copy" => mxGot[g] = SubSeq(mxMade[g], 1, Len(mxMade[g]) - 1)
          /\ mxPc[g] # "copy" => mxGot[g] = mxMade[g]
          /\ mu = g => ENABLED (MxIter(g) \/ MxCopy(g) \/ MxUnlock(g))
          /\ (mxPc[g] = "lock" /\ mu = 0) => ENABLED MxLock(g)
    /\ mu \in Goroutines \cup {0}

\* A call is about to copy its second digest out of r.buf while another
\* call waits for r.mu, after an earlier call of the waiting goroutine
\* returned with a digest of its own.
C22_Witness ==
    \E g, h \in Goroutines :
       /\ g # h
       /\ mxPc[g] = "copy"
       /\ Len(mxGot[g]) = 1
       /\ mxPc[h] = "lock"
       /\ mxCalls > 2


\* C23: in the worker-pool reader every chunk a worker places on the queue
\* is received by at most one Read call under any interleaving of workers
\* and readers: a received chunk is no longer queued and no chunk is queued
\* twice; each receive fills the next bytes of its call's buffer from the
\* start of a fresh chunk, a shorter copy is the last of its call, and a call
\* that has returned was filled by exactly ceil(len(b)/32) chunks, so the
\* unused tail of a chunk is given to no call.
C23_ChunkReceivedOnce ==
    /\ \A e, f \in plEvents : e.chunk = f.chunk => e = f
    /\ \A e \in plEvents : \A i \in 1..Len(plQueue) : plQueue[i] # e.chunk
    /\ \A i, j \in 1..Len(plQueue) : plQueue[i] = plQueue[j] => i = j
    /\ \A e \in plEvents :
          /\ e.len >= 1 /\ e.len <= ChunkSize
          /\ e.at % ChunkSize = 0
          /\ e.len < ChunkSize =>
                \A f \in plEvents : f.call = e.call => f.at <= e.at
    /\ \A g \in Goroutines :
          plPc[g] # "idle" \/ plCall[g] > 0 =>
             LET mine == {e \in plEvents : e.call = plCall[g]}
             IN  /\ {e.at : e \in mine}
                       = {ChunkSize * i : i \in 0..(Cardinality(mine) - 1)}
                 /\ plN[g] = Min(plLen[g], ChunkSize * Cardinality(mine))
                 /\ plPc[g] = "idle" =>
                       /\ plN[g] = plLen[g]
                       /\ Cardinality(mine)
                            = (plLen[g] + ChunkSize - 1) \div ChunkSize

\* A call used one byte of its second chunk and returned, the next chunk a
\* worker sent after re-seeding went to a different call, and the workers
\* keep the channel full.
C23_Witness ==
    /\ Len(plQueue) = QueueCap
    /\ \E e, f \in plEvents :
          /\ e.len = 1
          /\ e.at = ChunkSize
          /\ f.call # e.call
          /\ f.chunk[2] = 1
          /\ \E g \in Goroutines : plCall[g] = e.call /\ plPc[g] = "idle"


\* C24: when Read calls on the lock-free reader do not overlap, the tokens
\* of all calls are pairwise distinct, also across a threshold crossing: the
\* call whose fetch-and-increment returns 2^63 + 1 uses the old high word,
\* the high word is then incremented exactly once and the low word reset,
\* and the next call gets low word 1 with the new high word.
C24_SequentialTokensDistinct ==
    LET n == Len(sqTokens)
    IN  /\ Cardinality({SeedToken(sqTokens[i][1], sqTokens[i][2]) : i \in 1..n}) = n
        /\ \A i \in 1..n :
              /\ sqTokens[i][1] >= 1 /\ sqTokens[i][1] <= Threshold + 1
              /\ sqTokens[i][2] = (i - 1) \div (Threshold + 1)
              /\ (i < n /\ sqTokens[i][1] = Threshold + 1) =>
                    sqTokens[i + 1] = <<1, sqTokens[i][2] + 1>>
              /\ (i < n /\ sqTokens[i][1] # Threshold + 1) =>
                    sqTokens[i + 1] = <<sqTokens[i][1] + 1, sqTokens[i][2]>>
        /\ n > 0 =>
              IF sqTokens[n][1] = Threshold + 1
                THEN sqCounter = 0 /\ sqExtra = sqTokens[n][2] + 1
                ELSE sqCounter = sqTokens[n][1] /\ sqExtra = sqTokens[n][2]

\* The call after the second threshold crossing has returned: its token is
\* low word 1 with high word 2.
C24_Witness ==
    /\ Len(sqTokens) = 2 * (Threshold + 1) + 1
    /\ sqTokens[Len(sqTokens)] = <<1, 2>>
    /\ sqTokens[Len(sqTokens) - 1] = <<Threshold + 1, 1>>
    /\ sqCounter = 1


\* C25: within a single Read call the pairs (innerCounter,
\* innerCounterExtra) written into successive SeedBlocks are pairwise
\* distinct, as pairs and as the 16 bytes seed[16:32], also across the step
\* where innerCounter reaches its maximum value (where innerCounterExtra is
\* incremented) and the following step where innerCounter wraps to 0.
C25_InnerPairsDistinct ==
    LET bytes(pr) == PutUint64(pr[1]) \o PutUint64(pr[2])
    IN  /\ icInner \notin icSeen
        /\ \A pr \in icSeen : bytes(pr) # bytes(icInner)
        /\ Cardinality({bytes(pr) : pr \in icSeen}) = icK
        /\ icK > 0 =>
              /\ icPrev \in icSeen
              /\ icPrev[1] = MaxUint64 - 1 =>
                    icInner = <<MaxUint64, icPrev[2] + 1>>
              /\ icPrev[1] = MaxUint64 => icInner = <<0, icPrev[2]>>
              /\ icPrev[1] < MaxUint64 - 1 =>
                    icInner = <<icPrev[1] + 1, icPrev[2]>>

\* The loop is one chunk past the wrap: it hashed the pairs around the
\* carry and the wrap and is about to hash (1, 1), having hashed (1, 0).
C25_Witness ==
    /\ icInner = <<1, 1>>
    /\ {<<1, 0>>, <<MaxUint64 - 1, 0>>, <<MaxUint64, 1>>, <<0, 1>>} \subseteq icSeen


\* C26: in every reachable state of the lock-free reader the low counter
\* word is at most 2^63 + T, T the number of goroutines that can be inside
\* Read at once: it exceeds 2^63 by at most the number of calls that are in
\* the reset branch and have not stored yet. The low word therefore never
\* overflows its 64 bits, and it is lowered only by the reset, to 0.
C26_LowWordBounded ==
    /\ [](/\ counter <= Threshold + NumGoroutines
          /\ Threshold + NumGoroutines <= MaxUint64
          /\ counter > Threshold =>
                counter - Threshold <=
                   Cardinality({g \in Goroutines :
                                   /\ pc[g] \in {"load", "addExtra", "store"}
                                   /\ myCounter[g] > Threshold}))
    /\ [][counter' < counter =>
             (/\ counter' = 0
              /\ \E g \in Goroutines : AtomicStore(g))]_vars

\* Every goroutine has fetched a value above 2^63 and none has reset yet:
\* the low word is 2^63 + T.
C26_Witness ==
    /\ counter = Threshold + NumGoroutines
    /\ \A g \in Goroutines :
          pc[g] \in {"load", "addExtra", "store"} /\ myCounter[g] > Threshold


\* C27: the SeedBlock encoding is injective in its counters: the outer low
\* word, outer high word, inner low word and inner high word occupy the
\* disjoint ranges [0,8), [8,16), [16,24), [24,32) of the block (each is
\* read back from its range) and the seed lies behind them, so two
\* SeedBlocks are equal only if all four counter words are equal.
C27_SeedBlockInjective ==
    sdPc = "built" =>
       /\ Len(sdSeed.ctr) = 4 * WordBytes
       /\ \A k \in 1..4 :
             Uint64LE(SubSeq(sdSeed.ctr, (k - 1) * WordBytes + 1, k * WordBytes))
                = sdWords[k]
       /\ sdSeed.entropy = EntropyLen
       /\ \A t \in SeedWordTuples : SeedOf(t) = sdSeed => t = sdWords

\* A seed was built whose four counter words differ and fill more than one
\* byte each.
C27_Witness ==
    /\ sdPc = "built"
    /\ sdWords = <<MaxUint64, ByteBase, Threshold, ByteBase - 1>>
    /\ sdSeed = SeedOf(sdWords)


\* C28: for n >= 2, Perm(n) calls Intn exactly n - 1 times, with the bounds
\* 2, 3, ..., n in that order; it never passes a bound <= 0, so Perm never
\* triggers Intn's invalid-argument failure, and every index j it receives
\* satisfies 0 <= j <= i, so the accesses m[j] and m[i] are in range: a call
\* with n >= 0 never panics.
C28_PermCallsIntn ==
    pmPc # "call" =>
       /\ \A k \in 1..Len(pmBounds) :
             /\ pmBounds[k] = k + 1
             /\ ~IntnInvalid(pmBounds[k])
       /\ Len(pmJs) = Len(pmBounds)
       /\ \A k \in 1..Len(pmJs) :
             /\ pmJs[k] >= 0 /\ pmJs[k] <= k
             /\ InRange(pmM, pmJs[k]) /\ InRange(pmM, k)
       /\ pmPc = "loop" => Len(pmBounds) = pmI - 1
       /\ (pmPc = "done" /\ pmN >= 2) =>
             pmBounds = [k \in 1..(pmN - 1) |-> k + 1]
       /\ (pmPc = "done" /\ pmN < 2) => pmBounds = <<>>
       /\ pmPc = "panicked" => pmN < 0 /\ pmBounds = <<>>

\* Perm of the largest length followed has returned after Intn calls with
\* the bounds 2 .. n, the last of which returned the index i itself.
C28_Witness ==
    /\ pmPc = "done"
    /\ pmN = MaxPerm
    /\ pmBounds = [k \in 1..(MaxPerm - 1) |-> k + 1]
    /\ pmJs[MaxPerm - 1] = MaxPerm - 1
    /\ pmJs[1] = 0


\* C29: for every n > 0, max = MaxUint64 - MaxUint64 mod n is a multiple of
\* n with n <= max <= MaxUint64, so the set [0, max) of accepted draws is
\* never empty; Intn(n) returns at the first draw below max (the step after
\* such a draw is the return, and every draw before it was at or above max)
\* and therefore terminates unless the draws stay in [max, MaxUint64]:
\* every call with n > 0 returns, or all the draws followed were rejected.
C29_IntnTerminates ==
    /\ []((inPc \in {"draw", "test", "done"}) =>
            /\ inMax % inN = 0
            /\ inN <= inMax
            /\ inMax <= MaxUint64
            /\ \E bs \in ByteSeqs : Uint64LE(bs) < inMax)
    /\ []((inPc = "done") =>
            /\ inR < inMax
            /\ \A r \in inRejected : r >= inMax
            /\ inDraws >= 1)
    /\ [][(inPc = "test" /\ inR < inMax) => inPc' = "done"]_vars
    /\ [][(inPc = "test" /\ inR >= inMax) => inPc' = "draw"]_vars
    /\ ((inPc = "call" /\ inN > 0) ~>
           (\/ inPc = "done"
            \/ (inPc = "test" /\ inR >= inMax /\ inDraws = MaxDraws)))

\* Intn returned at its second draw: the first was at or above max, the
\* second below it.
C29_Witness ==
    /\ inPc = "done"
    /\ inDraws = 2
    /\ inRejected # {}
    /\ inR < inMax
    /\ inMax < MaxUint64

=============================================================================
